---- MODULE Spec2Model ----
(***************************************************************************)
(* A model of tastypie_services/services.py: the error, settings and       *)
(* status resources and the 500-error formatter they share.                *)
(*                                                                         *)
(* Python strings that are compared or sorted (settings keys) are          *)
(* sequences of code points; messages are sequences of string tokens, so   *)
(* that "the message contains ..." can be stated.                          *)
(***************************************************************************)
EXTENDS Integers, Sequences, FiniteSets, TLC

VARIABLES
    DEBUG,          \* settings.DEBUG
    safe_settings,  \* what debug.get_safe_settings() returns: key -> value
    pc,             \* position of the request being handled
    request,        \* the request being handled, or the last one handled
    obj,            \* the StatusObject of the status request
    calls,          \* what test() did so far: calls, returns, raises, all()
    handled,        \* the exception given to _handle_500, if any
    outbox,         \* mail_admins calls of this request
    errlog,         \* log.error calls of this request
    response        \* the response given to the client

vars == <<DEBUG, safe_settings, pc, request, obj, calls, handled, outbox,
          errlog, response>>

\* The largest number of keys in the safe settings snapshot.
MaxSettings == 3

\* The setting names of the model: "A", "AA", "AB", "B", "BA".
SettingNames == { <<65>>, <<65, 65>>, <<65, 66>>, <<66>>, <<66, 65>> }

\* The keys a client may ask for: the names above and "C", never a setting.
PkNames == SettingNames \cup { <<67>> }

\* The names the redaction policy masks.
HiddenNames == { <<66, 65>> }

----------------------------------------------------------------------------
(* Responses *)

EmptyContent == [kind |-> "empty"]

HttpResponse(status, content_type, content) ==
    [status |-> status, content_type |-> content_type, body |-> content]

NoResponse == HttpResponse(0, "", EmptyContent)

\* tastypie.http.HttpNotFound(): no content, the default content type
HttpNotFound == HttpResponse(404, "text/html; charset=utf-8", EmptyContent)

HttpApplicationError(content, content_type) ==
    HttpResponse(500, content_type, content)

\* self.serialize(request, data, 'application/json')
Serialize(data) == [kind |-> "json", data |-> data]

----------------------------------------------------------------------------
(* Exceptions *)

Exc(cls, message) ==
    [cls |-> cls, message |-> message,
     has_id |-> FALSE, id |-> "",
     has_data |-> FALSE, data |-> {},
     has_response |-> FALSE, response |-> NoResponse]

TestError(message) == Exc("TestError", message)

StatusError(message) == Exc("StatusError", message)

ImmediateHttpResponse(resp) ==
    [Exc("ImmediateHttpResponse", <<>>) EXCEPT
        !.has_response = TRUE, !.response = resp]

\* The classes an exception class derives from, itself included.
Mro(cls) ==
    CASE cls = "DoesNotExist" ->
            {"DoesNotExist", "ObjectDoesNotExist", "Exception"}
      [] cls = "NotFound" -> {"NotFound", "TastypieError", "Exception"}
      [] cls = "ImmediateHttpResponse" ->
            {"ImmediateHttpResponse", "TastypieError", "Exception"}
      [] cls = "NotImplementedError" ->
            {"NotImplementedError", "RuntimeError", "Exception"}
      [] OTHER -> {cls, "Exception"}

IsInstance(exception, classes) == Mro(exception.cls) \cap classes # {}

\* str(exception)
Str(exception) == exception.message

\* What the probes of a deployment may raise: the base class's
\* NotImplementedError, not-found kinds from a lookup, and errors that
\* carry an id, a data mapping, or both.
ProbeExceptions ==
    { Exc("NotImplementedError", <<>>),
      Exc("DoesNotExist", <<"no row">>),
      Exc("NotFound", <<"no such resource">>),
      [Exc("ProbeError", <<"cache down">>) EXCEPT
          !.has_id = TRUE, !.id = "E_PROBE"],
      [Exc("ProbeError", <<"db down">>) EXCEPT
          !.has_data = TRUE, !.data = {<<"host", "db1">>}],
      [Exc("ProbeError", <<"bad settings">>) EXCEPT
          !.has_id = TRUE, !.id = "E_SETTINGS",
          !.has_data = TRUE, !.data = {<<"missing", "API_URL">>}] }

\* The outcome of a call: a value, or an exception on its way up.
Return(v) == [raised |-> FALSE, value |-> v]

Raise(e) == [raised |-> TRUE, exc |-> e]

----------------------------------------------------------------------------
(* ServiceResource._handle_500 *)

\* The exception kinds for which no mail is sent.
NotFoundKinds == {"NotFound", "ObjectDoesNotExist"}

ShouldMailMutant(debug, exception) ==
    ~(debug /\ IsInstance(exception, NotFoundKinds))

\* not (settings.DEBUG or isinstance(exception, (NotFound, ObjectDoesNotExist)))
ShouldMail(debug, exception) ==
    ~(debug \/ IsInstance(exception, NotFoundKinds))

ErrorCodeMutant(exception) == exception.cls

\* getattr(exception, 'id', exception.__class__.__name__)
ErrorCode(exception) ==
    IF exception.has_id THEN exception.id ELSE exception.cls

\* getattr(exception, 'data', {})
ErrorData(exception) ==
    IF exception.has_data THEN exception.data ELSE {}

ErrorPayload(exception) ==
    [error_message |-> Str(exception),
     error_code |-> ErrorCode(exception),
     error_data |-> ErrorData(exception)]

Handle500Mutant(req, exception) ==
    [errlog |-> <<[path |-> req]>>,
     outbox |-> IF ShouldMail(DEBUG, exception)
                THEN <<[subject_path |-> req]>>
                ELSE <<>>,
     handled |-> <<exception>>,
     response |-> HttpApplicationError([kind |-> "text",
                                        data |-> Str(exception)],
                                       "application/json; charset=utf-8")]

\* What _handle_500 does: a log entry, a mail to the admins or none, and
\* the 500 response with the serialized payload.
Handle500(req, exception) ==
    [errlog |-> <<[path |-> req]>>,
     outbox |-> IF ShouldMail(DEBUG, exception)
                THEN <<[subject_path |-> req]>>
                ELSE <<>>,
     handled |-> <<exception>>,
     response |-> HttpApplicationError(Serialize(ErrorPayload(exception)),
                                       "application/json; charset=utf-8")]

\* The request boundary of the resource framework: an exception that
\* carries a response is answered with that response, any other exception
\* goes to _handle_500, and a value is serialized into a 200 response.
WrapView(req, outcome) ==
    IF outcome.raised
    THEN IF outcome.exc.has_response
         THEN [errlog |-> <<>>, outbox |-> <<>>, handled |-> <<>>,
               response |-> outcome.exc.response]
         ELSE Handle500(req, outcome.exc)
    ELSE [errlog |-> <<>>, outbox |-> <<>>, handled |-> <<>>,
          response |-> HttpResponse(200, "application/json",
                                    Serialize(outcome.value))]

----------------------------------------------------------------------------
(* ErrorResource *)

ErrorObjGetListMutant == Return([objects |-> <<>>])

\* raise TestError('This is a test.')
ErrorObjGetList == Raise(TestError(<<"This is a test.">>))

----------------------------------------------------------------------------
(* SettingsResource *)

\* debug.cleanse_setting(key, value)
CleanseSetting(key, value) ==
    IF key \in HiddenNames THEN "********" ELSE value

\* debug.get_safe_settings()
GetSafeSettings == safe_settings

\* SettingsObject(name), as the resource's fields show it: key is pk,
\* value is cleansed.
SettingsObject(name) ==
    [key |-> name, value |-> CleanseSetting(name, GetSafeSettings[name])]

SettingsObjGetMutant(pk) ==
    IF pk \notin DOMAIN GetSafeSettings
    THEN Raise(Exc("KeyError", <<"pk">>))
    ELSE Return(SettingsObject(pk))

SettingsObjGet(pk) ==
    IF pk \notin DOMAIN GetSafeSettings
    THEN Raise(ImmediateHttpResponse(HttpNotFound))
    ELSE Return(SettingsObject(pk))

\* a < b for Python strings
RECURSIVE StrLess(_, _)
StrLess(a, b) ==
    IF a = <<>> THEN b # <<>>
    ELSE IF b = <<>> THEN FALSE
    ELSE IF Head(a) # Head(b) THEN Head(a) < Head(b)
    ELSE StrLess(Tail(a), Tail(b))

RECURSIVE Insert(_, _)
Insert(x, s) ==
    IF s = <<>> THEN <<x>>
    ELSE IF StrLess(x, Head(s)) THEN <<x>> \o s
    ELSE <<Head(s)>> \o Insert(x, Tail(s))

SortedMutant(s) == s

\* sorted(keys)
RECURSIVE Sorted(_)
Sorted(s) ==
    IF s = <<>> THEN <<>> ELSE Insert(Head(s), Sorted(Tail(s)))

\* The orders in which a dict may hand out its keys.
KeyOrders(d) ==
    { s \in [1..Cardinality(DOMAIN d) -> DOMAIN d] :
        \A i, j \in DOMAIN s : i # j => s[i] # s[j] }

\* [SettingsObject(k) for k in sorted(keys)]
SettingsObjGetList(keys) ==
    Return([objects |->
              [i \in 1..Len(Sorted(keys)) |-> SettingsObject(Sorted(keys)[i])]])

----------------------------------------------------------------------------
(* StatusObject and StatusResource *)

\* The class attributes: cache = False, db = False, settings = True.
StatusObject == [cache |-> FALSE, db |-> FALSE, settings |-> TRUE]

ChecksMutant(o) == << <<"cache", o.cache>>, <<"db", o.db>> >>

\* [(k, getattr(self, k)) for k in ['cache', 'db', 'settings']]
Checks(o) ==
    << <<"cache", o.cache>>, <<"db", o.db>>, <<"settings", o.settings>> >>

\* '%s' % v for a boolean
PyStr(v) == IF v THEN "True" ELSE "False"

\* sep.join(parts), each part a sequence of tokens
RECURSIVE Join(_, _)
Join(sep, parts) ==
    IF parts = <<>> THEN <<>>
    ELSE IF Len(parts) = 1 THEN Head(parts)
    ELSE Head(parts) \o <<sep>> \o Join(sep, Tail(parts))

ReprMutant(o) ==
    <<"<Status: ">>
    \o Join(", ", [i \in 1..Len(Checks(o)) |-> <<Checks(o)[i][1]>>])
    \o <<">">>

\* StatusObject.__repr__: '<Status: cache: X, db: Y, settings: Z>'
Repr(o) ==
    <<"<Status: ">>
    \o Join(", ", [i \in 1..Len(Checks(o)) |->
                     <<Checks(o)[i][1], ": ", PyStr(Checks(o)[i][2])>>])
    \o <<">">>

TestOrderMutant == <<"cache", "settings", "db">>

\* test() calls test_cache(), test_db(), test_settings()
TestOrder == <<"cache", "db", "settings">>

AllMutant(o) == \E i \in 1..Len(Checks(o)) : Checks(o)[i][2]

\* all([c[1] for c in self.checks])
All(o) == \A i \in 1..Len(Checks(o)) : Checks(o)[i][2]

StatusObjGetMutant(o, passed) == Return(o)

\* if not obj.test(): raise StatusError(str(obj)); return obj
StatusObjGet(o, passed) ==
    IF ~passed THEN Raise(StatusError(Repr(o))) ELSE Return(o)

\* obj_get_list: [self.obj_get(request, **kwargs)]
StatusObjGetList(outcome) ==
    IF outcome.raised THEN outcome
    ELSE Return([objects |-> <<outcome.value>>])

\* What the status resource hands to the request boundary.
StatusOutcome(req, outcome) ==
    IF req.kind = "list" THEN StatusObjGetList(outcome) ELSE outcome

\* The probes test() has called, and those that have returned.
Called == SelectSeq(calls, LAMBDA c : c.ev = "call")

Returned == SelectSeq(calls, LAMBDA c : c.ev = "return")

----------------------------------------------------------------------------
(* Requests *)

NoRequest == [resource |-> "none", kind |-> "none", pk |-> <<>>]

Request(resource, kind, pk) == [resource |-> resource, kind |-> kind, pk |-> pk]

Init ==
    /\ DEBUG \in BOOLEAN
    /\ safe_settings \in
         { [k \in S |-> CleanseSetting(k, "value")] :
             S \in { T \in SUBSET SettingNames : Cardinality(T) <= MaxSettings } }
    /\ pc = "idle"
    /\ request = NoRequest
    /\ obj = StatusObject
    /\ calls = <<>>
    /\ handled = <<>>
    /\ outbox = <<>>
    /\ errlog = <<>>
    /\ response = NoResponse

\* The request is answered: what the request boundary made of the outcome.
Respond(req, outcome) ==
    /\ pc' = "idle"
    /\ errlog' = WrapView(req, outcome).errlog
    /\ outbox' = WrapView(req, outcome).outbox
    /\ handled' = WrapView(req, outcome).handled
    /\ response' = WrapView(req, outcome).response

\* GET /services/error/
GetError ==
    /\ pc = "idle"
    /\ request' = Request("error", "list", <<>>)
    /\ obj' = StatusObject
    /\ calls' = <<>>
    /\ Respond(request', ErrorObjGetList)
    /\ UNCHANGED <<DEBUG, safe_settings>>

\* GET /services/settings/<pk>/
GetSettingsDetail(pk) ==
    /\ pc = "idle"
    /\ request' = Request("settings", "detail", pk)
    /\ obj' = StatusObject
    /\ calls' = <<>>
    /\ Respond(request', SettingsObjGet(pk))
    /\ UNCHANGED <<DEBUG, safe_settings>>

\* GET /services/settings/
GetSettingsList ==
    /\ pc = "idle"
    /\ request' = Request("settings", "list", <<>>)
    /\ obj' = StatusObject
    /\ calls' = <<>>
    /\ \E keys \in KeyOrders(GetSafeSettings) :
          Respond(request', SettingsObjGetList(keys))
    /\ UNCHANGED <<DEBUG, safe_settings>>

\* GET /services/status/ (list) or /services/status/<pk>/ (detail): the
\* status object is made and test() is entered.
GetStatus(kind) ==
    /\ pc = "idle"
    /\ request' = Request("status", kind, <<>>)
    /\ obj' = StatusObject
    /\ calls' = <<>>
    /\ pc' = "test"
    /\ handled' = <<>>
    /\ outbox' = <<>>
    /\ errlog' = <<>>
    /\ response' = NoResponse
    /\ UNCHANGED <<DEBUG, safe_settings>>

\* test() calls its next probe.
CallProbe ==
    /\ pc = "test"
    /\ Len(Called) < Len(TestOrder)
    /\ calls' = Append(calls, [ev |-> "call",
                               probe |-> TestOrder[Len(Called) + 1],
                               val |-> ""])
    /\ pc' = "probe"
    /\ UNCHANGED <<DEBUG, safe_settings, request, obj, handled, outbox,
                   errlog, response>>

\* The running probe returns ret, having set its attribute to v or not.
ProbeReturns(assign, v, ret) ==
    /\ pc = "probe"
    /\ LET p == calls[Len(calls)].probe
       IN /\ obj' = IF assign THEN [obj EXCEPT ![p] = v] ELSE obj
          /\ calls' = Append(calls, [ev |-> "return", probe |-> p, val |-> ret])
    /\ pc' = "test"
    /\ UNCHANGED <<DEBUG, safe_settings, request, handled, outbox, errlog,
                   response>>

\* The running probe raises: the exception leaves test() and obj_get.
ProbeRaises(e) ==
    /\ pc = "probe"
    /\ calls' = Append(calls, [ev |-> "raise",
                               probe |-> calls[Len(calls)].probe,
                               val |-> e.cls])
    /\ Respond(request, StatusOutcome(request, Raise(e)))
    /\ UNCHANGED <<DEBUG, safe_settings, request, obj>>

\* The three probes have returned: test() returns all(...), and obj_get
\* returns the object or raises StatusError.
TestAll ==
    /\ pc = "test"
    /\ Len(Called) = Len(TestOrder)
    /\ calls' = Append(calls, [ev |-> "all", probe |-> "", val |-> PyStr(All(obj))])
    /\ Respond(request, StatusOutcome(request, StatusObjGet(obj, All(obj))))
    /\ UNCHANGED <<DEBUG, safe_settings, request, obj>>

Next ==
    \/ GetError
    \/ \E pk \in PkNames : GetSettingsDetail(pk)
    \/ GetSettingsList
    \/ \E kind \in {"list", "detail"} : GetStatus(kind)
    \/ CallProbe
    \/ \E assign \in BOOLEAN, v \in BOOLEAN, ret \in {"None", "False", "True"} :
          ProbeReturns(assign, v, ret)
    \/ \E e \in ProbeExceptions : ProbeRaises(e)
    \/ TestAll

Spec == Init /\ [][Next]_vars

----------------------------------------------------------------------------
(* Properties *)

\* A request has been answered.
Done(resource) == pc = "idle" /\ request.resource = resource

\* test() has run to its end in the status request that was answered.
TestRan == Done("status") /\ Len(Returned) = 3

Bool(v) == IF v THEN "True" ELSE "False"

\* The message holds "name: value".
HasCheck(msg, name, v) ==
    \E i \in 1..(Len(msg) - 2) :
        msg[i] = name /\ msg[i + 1] = ": " /\ msg[i + 2] = Bool(v)

\* '<Status: cache: X, db: Y, settings: Z>' for the object o
StatusText(o) ==
    <<"<Status: ", "cache", ": ", Bool(o.cache), ", ", "db", ": ", Bool(o.db),
      ", ", "settings", ": ", Bool(o.settings), ">">>

IsJsonError(resp) ==
    /\ resp.status = 500
    /\ resp.content_type = "application/json; charset=utf-8"
    /\ resp.body.kind = "json"
    /\ DOMAIN resp.body.data = {"error_message", "error_code", "error_data"}

\* C1: whenever an exception was handled by _handle_500, no admin mail was
\* sent if DEBUG is on, and none was sent if the exception is a Not-Found
\* kind (NotFound, ObjectDoesNotExist or a subclass), whatever DEBUG is.
C1_NoMailInDebugOrForNotFound ==
    handled # <<>> =>
        /\ DEBUG => outbox = <<>>
        /\ handled[1].cls \in {"NotFound", "ObjectDoesNotExist", "DoesNotExist"}
              => outbox = <<>>

C1_Witness ==
    /\ handled # <<>>
    /\ ~DEBUG
    /\ handled[1].cls = "DoesNotExist"
    /\ outbox = <<>>

\* C2: when test() ran and left one of cache, db, settings false, the
\* status request (list or detail) ends in a 500 whose error_message holds
\* the three check names, each with its boolean value.
C2_FailedStatusIs500WithChecks ==
    (TestRan /\ ~(obj.cache /\ obj.db /\ obj.settings)) =>
        /\ response.status = 500
        /\ response.body.kind = "json"
        /\ HasCheck(response.body.data.error_message, "cache", obj.cache)
        /\ HasCheck(response.body.data.error_message, "db", obj.db)
        /\ HasCheck(response.body.data.error_message, "settings", obj.settings)

C2_Witness ==
    /\ TestRan
    /\ request.kind = "list"
    /\ obj.cache /\ obj.db /\ ~obj.settings
    /\ response.status = 500

\* C3 as stated: if a check returned a false-equivalent value or raised
\* NotImplementedError, a StatusError carrying the representation of the
\* three results was raised.
C3_Original ==
    (/\ Done("status")
     /\ \E i \in 1..Len(calls) :
           \/ calls[i].ev = "return" /\ calls[i].val \in {"None", "False"}
           \/ calls[i].ev = "raise" /\ calls[i].val = "NotImplementedError")
    => /\ handled # <<>>
       /\ handled[1].cls = "StatusError"
       /\ handled[1].message = StatusText(obj)

\* C3 amended: when the three checks have returned, a StatusError carrying
\* the representation of the three results is raised if and only if one of
\* the attributes cache, db, settings is false, whatever the checks
\* returned; when a check raises, that exception is the one handled and no
\* StatusError is raised.
C3_StatusErrorFromAttributes ==
    Done("status") =>
        /\ (Len(Returned) = 3 /\ ~(obj.cache /\ obj.db /\ obj.settings)) =>
              /\ handled # <<>>
              /\ handled[1].cls = "StatusError"
              /\ handled[1].message = StatusText(obj)
        /\ (Len(Returned) = 3 /\ obj.cache /\ obj.db /\ obj.settings) =>
              handled = <<>>
        /\ \A i \in 1..Len(calls) :
              calls[i].ev = "raise" =>
                  /\ handled # <<>>
                  /\ handled[1].cls = calls[i].val
                  /\ handled[1].cls # "StatusError"

C3_Witness ==
    /\ TestRan
    /\ ~obj.db
    /\ \A i \in 1..Len(calls) : calls[i].ev = "return" => calls[i].val = "True"
    /\ handled # <<>>
    /\ handled[1].cls = "StatusError"

\* C4: when the three probes returned and left cache, db and settings true,
\* the status request is answered 200 with the three flags true; and the
\* result of test() is the conjunction of the three flags.
C4_HealthyStatusIs200 ==
    /\ (TestRan /\ obj.cache /\ obj.db /\ obj.settings) =>
          /\ response.status = 200
          /\ response.body.kind = "json"
          /\ LET shown == IF request.kind = "list"
                          THEN response.body.data.objects
                          ELSE <<response.body.data>>
             IN /\ Len(shown) = 1
                /\ shown[1].cache /\ shown[1].db /\ shown[1].settings
    /\ \A i \in 1..Len(calls) :
          calls[i].ev = "all" =>
              calls[i].val = Bool(obj.cache /\ obj.db /\ obj.settings)

C4_Witness ==
    /\ TestRan
    /\ request.kind = "list"
    /\ obj.cache /\ obj.db /\ obj.settings
    /\ response.status = 200

\* C5: a settings detail request for a key of the snapshot is answered 200
\* with that key; for a key not in the snapshot it is answered 404, and the
\* exception never reaches _handle_500.
C5_SettingsDetailByMembership ==
    (Done("settings") /\ request.kind = "detail") =>
        /\ request.pk \in DOMAIN safe_settings =>
              /\ response.status = 200
              /\ response.body.data.key = request.pk
        /\ request.pk \notin DOMAIN safe_settings =>
              /\ response.status = 404
              /\ handled = <<>>

C5_Witness ==
    /\ Done("settings") /\ request.kind = "detail"
    /\ safe_settings # <<>>
    /\ request.pk \notin DOMAIN safe_settings
    /\ response.status = 404

\* a < b in lexicographic order, by the first place where a and b differ
LexLess(a, b) ==
    \E n \in 0..Len(a) :
        /\ n <= Len(b)
        /\ \A i \in 1..n : a[i] = b[i]
        /\ \/ n = Len(a) /\ n < Len(b)
           \/ n < Len(a) /\ n < Len(b) /\ a[n + 1] < b[n + 1]

\* C6: the settings list holds one entry per key of the snapshot, none
\* missing, added or repeated, the keys in strictly ascending order.
C6_SettingsListSorted ==
    (Done("settings") /\ request.kind = "list") =>
        LET objects == response.body.data.objects
        IN /\ response.status = 200
           /\ Len(objects) = Cardinality(DOMAIN safe_settings)
           /\ { objects[i].key : i \in 1..Len(objects) } = DOMAIN safe_settings
           /\ \A i \in 1..(Len(objects) - 1) :
                 LexLess(objects[i].key, objects[i + 1].key)

C6_Witness ==
    /\ Done("settings") /\ request.kind = "list"
    /\ {<<65>>, <<65, 66>>, <<66>>} = DOMAIN safe_settings
    /\ Len(response.body.data.objects) = 3

\* C7: every request to the error resource is answered 500 with
\* error_code "TestError" and error_message "This is a test.".
C7_ErrorAlways500 ==
    request.resource = "error" =>
        /\ pc = "idle"
        /\ response.status = 500
        /\ response.body.kind = "json"
        /\ response.body.data.error_code = "TestError"
        /\ response.body.data.error_message = <<"This is a test.">>

C7_Witness ==
    /\ request.resource = "error"
    /\ ~DEBUG
    /\ response.status = 500
    /\ outbox # <<>>

\* C8: for the exception given to _handle_500, error_code is its id when
\* it has one and its class name otherwise, error_data is its data when it
\* has one and the empty mapping otherwise, and the status is 500.
C8_PayloadFromException ==
    handled # <<>> =>
        /\ response.status = 500
        /\ response.body.data.error_code =
              (IF handled[1].has_id THEN handled[1].id ELSE handled[1].cls)
        /\ response.body.data.error_data =
              (IF handled[1].has_data THEN handled[1].data ELSE {})

C8_Witness ==
    /\ handled # <<>>
    /\ handled[1].has_id /\ handled[1].has_data
    /\ response.body.data.error_code = "E_SETTINGS"
    /\ response.body.data.error_data # {}

\* C9 as stated: every request that ends in an error (a status of 400 or
\* more) is answered with a JSON body.
C9_Original ==
    (pc = "idle" /\ request.resource # "none" /\ response.status >= 400) =>
        response.body.kind = "json"

\* C9 amended: every answered request has status 200, 404 or 500; a 500
\* comes from _handle_500 and has the JSON error payload as its body; a 404
\* is the settings lookup of a key not in the snapshot and has no body.
C9_ErrorResponses ==
    (pc = "idle" /\ request.resource # "none") =>
        /\ response.status \in {200, 404, 500}
        /\ response.status = 500 => handled # <<>> /\ IsJsonError(response)
        /\ response.status = 404 =>
              /\ request.resource = "settings" /\ request.kind = "detail"
              /\ request.pk \notin DOMAIN safe_settings
              /\ response.body.kind = "empty"
        /\ handled # <<>> => response.status = 500

C9_Witness ==
    /\ Done("status")
    /\ handled # <<>>
    /\ handled[1].cls = "NotImplementedError"
    /\ IsJsonError(response)

\* The number of calls among the first i things test() did.
CallsUpTo(i) == Cardinality({ j \in 1..i : calls[j].ev = "call" })

\* C10: test() calls the probes in the order cache, db, settings, each at
\* most once, a probe only after the one before it has returned, and
\* computes the aggregate only after the three have returned.
C10_ProbesInOrderOnce ==
    LET order == <<"cache", "db", "settings">>
    IN /\ \A i \in 1..Len(calls) :
             calls[i].ev = "call" =>
                 /\ CallsUpTo(i) <= 3
                 /\ calls[i].probe = order[CallsUpTo(i)]
                 /\ i > 1 =>
                       /\ calls[i - 1].ev = "return"
                       /\ calls[i - 1].probe = order[CallsUpTo(i) - 1]
       /\ \A i, j \in 1..Len(calls) :
             (i # j /\ calls[i].ev = "call" /\ calls[j].ev = "call") =>
                 calls[i].probe # calls[j].probe
       /\ \A i \in 1..Len(calls) :
             calls[i].ev = "all" =>
                 \A k \in 1..3 :
                     \E j \in 1..(i - 1) :
                         calls[j].ev = "return" /\ calls[j].probe = order[k]

C10_Witness ==
    /\ TestRan
    /\ calls[Len(calls)].ev = "all"
    /\ Len(calls) = 7

====
